---- MODULE Spec2Model ----
(***************************************************************************)
(* Portfolio manager (MarcAiBTC/gestorfinancieroai).                       *)
(*                                                                         *)
(* The repository holds two Streamlit programs:                            *)
(*   src/streamlit_app.py  the DataFrame program: portfolio.json, columns  *)
(*                         symbol / quantity / buy_price, add_asset,       *)
(*                         remove_asset, compute_metrics, fetch_history;   *)
(*   src/main.py           the PortfolioManager program: a list of asset   *)
(*                         dictionaries in portfolio_data.json, with the   *)
(*                         derived fields stored in each asset.            *)
(*                                                                         *)
(* Spec    is the DataFrame program (position store, persistence, render). *)
(* SpecRem applies remove_asset to bounded frames and symbols.             *)
(* SpecVal applies compute_metrics to bounded frames and quote feeds.      *)
(* SpecPM  is the PortfolioManager program with a disk that takes every    *)
(*         write; in SpecPMIO a write may fail.                            *)
(* SpecAn  applies calculate_portfolio_metrics and show_analysis to        *)
(*         bounded asset lists.                                            *)
(* SpecHist applies fetch_history to bounded frames and downloads.         *)
(*                                                                         *)
(* Numbers.  Stored quantities and prices are floats in the code; here     *)
(* they are small naturals.  Derived values are exact rationals extended   *)
(* with NaN and the infinities (the values IEEE-754 division produces), so *)
(* the arithmetic is the code's arithmetic without rounding error.         *)
(***************************************************************************)
EXTENDS Integers, Sequences, FiniteSets, TLC

VARIABLES
    portfolio,   \* st.session_state.portfolio of the DataFrame program
    file,        \* portfolio.json
    last,        \* the step the DataFrame program took last
    vdf,         \* SpecVal: the frame handed to compute_metrics
    vquotes,     \* SpecVal: what the exchange has for each symbol of the frame
    vout,        \* SpecVal: what compute_metrics returned
    pm_portfolio,  \* st.session_state.portfolio of the PortfolioManager program
    pm_file,       \* portfolio_data.json
    pm_last,       \* the step the PortfolioManager program took last
    pm_fetched,    \* what fetch_stock_data answered in that step, by ticker
                   \* (in a price refresh: in the turn of the loop taken last)
    pm_refresh_at, \* the asset update_portfolio_prices is at, 0 when it is not running
    an_portfolio,  \* SpecAn: the asset list handed to the analysis
    an_history,    \* SpecAn: the value of that list on each day of the history
    an_out,        \* SpecAn: the metrics and the analysis page of that list
    h_df,          \* SpecHist: the frame handed to fetch_history
    h_data,        \* SpecHist: the closes yf.download has for each symbol
    h_out          \* SpecHist: what fetch_history returned

dfVars == <<portfolio, file, last>>

valVars == <<vdf, vquotes, vout>>

pmVars == <<pm_portfolio, pm_file, pm_last, pm_fetched, pm_refresh_at>>

anVars == <<an_portfolio, an_history, an_out>>

histVars == <<h_df, h_data, h_out>>

vars == <<portfolio, file, last, vdf, vquotes, vout, pm_portfolio, pm_file, pm_last,
          pm_fetched, pm_refresh_at, an_portfolio, an_history, an_out, h_df, h_data,
          h_out>>

---------------------------------------------------------------------------
(* Bounds *)

\* The tickers the user types (text_input(...).upper()); "" is the empty input.
Symbols == {"AAPL", "MSFT"}

\* The tickers of the frames compute_metrics is applied to in SpecVal.
ValSymbolSeq == <<"AAPL", "MSFT", "GOOG">>

\* Largest quantity the user enters.
MaxQty == 1

\* Largest purchase price the user enters.
MaxPrice == 1

\* Largest quote the price feed returns.
MaxQuote == 2

\* The thresholds of the recommendations of show_analysis.
ConcentrationLimit == 30

MinSectors == 3

VolatilityLimit == 20

---------------------------------------------------------------------------
(* Floats: rationals, NaN, +inf, -inf *)

RECURSIVE Gcd(_, _)
Gcd(a, b) == IF b = 0 THEN a ELSE Gcd(b, a % b)

Abs(x) == IF x < 0 THEN -x ELSE x

Sign(x) == IF x < 0 THEN -1 ELSE IF x > 0 THEN 1 ELSE 0

NaN == [k |-> "nan", n |-> 0, d |-> 0]

Inf(s) == [k |-> "inf", n |-> s, d |-> 0]

\* The rational n/d (d # 0) in lowest terms with a positive denominator.
Rat(n, d) ==
    LET g == Gcd(Abs(n), Abs(d))
        s == Sign(d)
    IN  [k |-> "num", n |-> (s * n) \div g, d |-> (s * d) \div g]

Flt(i) == [k |-> "num", n |-> i, d |-> 1]

IsNaN(x) == x.k = "nan"

IsNum(x) == x.k = "num"

FNeg(x) == [x EXCEPT !.n = -x.n]

FAdd(x, y) ==
    CASE IsNaN(x) \/ IsNaN(y) -> NaN
      [] IsNum(x) /\ IsNum(y) -> Rat(x.n * y.d + y.n * x.d, x.d * y.d)
      [] IsNum(x) -> y
      [] IsNum(y) -> x
      [] OTHER -> IF x.n = y.n THEN x ELSE NaN

FSub(x, y) == FAdd(x, FNeg(y))

FMul(x, y) ==
    CASE IsNaN(x) \/ IsNaN(y) -> NaN
      [] IsNum(x) /\ IsNum(y) -> Rat(x.n * y.n, x.d * y.d)
      [] OTHER -> IF Sign(x.n) * Sign(y.n) = 0 THEN NaN
                  ELSE Inf(Sign(x.n) * Sign(y.n))

\* IEEE-754 division, as numpy computes it on float64 columns:
\* x/0 is +-inf for x # 0 and NaN for x = 0; no exception is raised.
FDiv(x, y) ==
    CASE IsNaN(x) \/ IsNaN(y) -> NaN
      [] IsNum(x) /\ IsNum(y) ->
            IF y.n # 0 THEN Rat(x.n * y.d, x.d * y.n)
            ELSE IF x.n = 0 THEN NaN ELSE Inf(Sign(x.n))
      [] IsNum(y) -> IF y.n < 0 THEN Inf(-x.n) ELSE Inf(x.n)
      [] IsNum(x) -> Flt(0)
      [] OTHER -> NaN

\* x < y on floats: FALSE when either side is NaN.
FLess(x, y) ==
    CASE IsNaN(x) \/ IsNaN(y) -> FALSE
      [] IsNum(x) /\ IsNum(y) -> x.n * y.d < y.n * x.d
      [] IsNum(x) -> y.n > 0
      [] IsNum(y) -> x.n < 0
      [] OTHER -> x.n < y.n

---------------------------------------------------------------------------
(* Sequences *)

RECURSIVE SeqSum(_)
SeqSum(s) == IF s = <<>> THEN Flt(0) ELSE FAdd(s[1], SeqSum(Tail(s)))

NotNaN(x) == ~IsNaN(x)

\* Series.sum(): skipna is the default, so NaN entries are left out and the sum
\* of no entries is 0.
SumSkipNa(s) == SeqSum(SelectSeq(s, NotNaN))

---------------------------------------------------------------------------
(* The DataFrame program: frames and portfolio.json *)

\* A frame is its rows in order, each with its index label, and whether the
\* frame has the columns symbol / quantity / buy_price at all.
Frame(cols, rows) == [columns |-> cols, rows |-> rows]

\* pd.DataFrame(columns=["symbol", "quantity", "buy_price"])
NoRows == Frame(TRUE, <<>>)

\* A position as the spec reads it: symbol, quantity, cost basis.
Position(r) == [symbol |-> r.symbol, quantity |-> r.quantity, buy_price |-> r.buy_price]

Positions(df) == [i \in DOMAIN df.rows |-> Position(df.rows[i])]

SymbolsOf(df) == {df.rows[i].symbol : i \in DOMAIN df.rows}

\* DataFrame.empty: some axis has length 0.
IsEmpty(df) == ~df.columns \/ df.rows = <<>>

\* pd.DataFrame(data) of a list of records: a RangeIndex 0..n-1, and the columns
\* are the keys of the records, so the empty list gives a frame with no columns.
DataFrame(data) ==
    IF data = <<>> THEN Frame(FALSE, <<>>)
    ELSE Frame(TRUE, [i \in DOMAIN data |->
                        [idx |-> i - 1, symbol |-> data[i].symbol,
                         quantity |-> data[i].quantity,
                         buy_price |-> data[i].buy_price]])

NoFile == [exists |-> FALSE, records |-> <<>>]

load_portfolio(f) == IF f.exists THEN DataFrame(f.records) ELSE NoRows

\* DataFrame.to_json(orient="records"): one record per row in row order, the
\* index labels are not written; a frame without rows is written as [].
to_json(df) == [i \in DOMAIN df.rows |-> Position(df.rows[i])]

save_portfolio(df) == [exists |-> TRUE, records |-> to_json(df)]

Row(label, symbol, qty, price) ==
    [idx |-> label, symbol |-> symbol, quantity |-> qty, buy_price |-> price]

\* df.loc[label] = row: the row that carries the index label is overwritten in
\* place; only when no row carries it is the frame enlarged by a row at the end.
loc_setitem(df, label, symbol, qty, price) ==
    IF \E i \in DOMAIN df.rows : df.rows[i].idx = label
    THEN Frame(TRUE, [i \in DOMAIN df.rows |->
                        IF df.rows[i].idx = label
                        THEN Row(label, symbol, qty, price)
                        ELSE df.rows[i]])
    ELSE Frame(TRUE, Append(df.rows, Row(label, symbol, qty, price)))

\* df.loc[df["symbol"] == symbol, ["quantity", "buy_price"]] = [qty, price]
loc_update(df, symbol, qty, price) ==
    Frame(TRUE, [i \in DOMAIN df.rows |->
                    IF df.rows[i].symbol = symbol
                    THEN [df.rows[i] EXCEPT !.quantity = qty, !.buy_price = price]
                    ELSE df.rows[i]])

\* add_asset that appends without looking for the symbol.
add_asset_no_lookup(df, f, symbol, qty, price) ==
    IF ~df.columns THEN [err |-> "KeyError", portfolio |-> df, file |-> f]
    ELSE LET new == loc_setitem(df, Len(df.rows), symbol, qty, price)
         IN  [err |-> "none", portfolio |-> new, file |-> save_portfolio(new)]

\* add_asset on the session's frame df with portfolio.json f.  df["symbol"]
\* raises KeyError on a frame without columns, before anything is changed.
\* A symbol not held is assigned to the index label len(df).
add_asset(df, f, symbol, qty, price) ==
    IF ~df.columns THEN [err |-> "KeyError", portfolio |-> df, file |-> f]
    ELSE LET new == IF symbol \in SymbolsOf(df)
                    THEN loc_update(df, symbol, qty, price)
                    ELSE loc_setitem(df, Len(df.rows), symbol, qty, price)
         IN  [err |-> "none", portfolio |-> new, file |-> save_portfolio(new)]

\* remove_asset: df["symbol"] raises KeyError on a frame without columns,
\* before anything is changed; else df[df["symbol"] != symbol] keeps the other
\* rows with their index labels, and the result is stored and saved.
remove_asset(df, f, symbol) ==
    IF ~df.columns THEN [err |-> "KeyError", portfolio |-> df, file |-> f]
    ELSE LET Keep(r) == r.symbol # symbol
             new == Frame(TRUE, SelectSeq(df.rows, Keep))
         IN  [err |-> "none", portfolio |-> new, file |-> save_portfolio(new)]

---------------------------------------------------------------------------
(* The DataFrame program: valuation *)

\* What the feed answers for one symbol: a price, or NaN when it has none.
QuoteValues == {NaN} \cup {Flt(q) : q \in 1..MaxQuote}

\* What the exchange has for the symbols on the day of the download.
Feeds(symbols) == [symbols -> QuoteValues]

NoPrices == [s \in {} |-> NaN]

\* fetch_current_prices(symbols) when the exchange has feed: {} for no
\* symbols.  The download has a row only when some symbol has a price, and
\* .iloc[-1] raises IndexError on a download without rows; nothing catches
\* it.  Else the last row as a dict, NaN for a symbol without a price.
fetch_current_prices(symbols, feed) ==
    IF symbols = {} THEN [err |-> "none", prices |-> NoPrices]
    ELSE IF \A s \in symbols : IsNaN(feed[s])
    THEN [err |-> "IndexError", prices |-> NoPrices]
    ELSE [err |-> "none", prices |-> [s \in symbols |-> feed[s]]]

\* df["symbol"].map(prices): NaN for a symbol the dict does not hold.
current_price(symbol, prices) ==
    IF symbol \in DOMAIN prices THEN prices[symbol] ELSE NaN

\* Lines 45-49 for one row.
row_metrics(r, prices) ==
    LET cp == current_price(r.symbol, prices)
        mv == FMul(cp, Flt(r.quantity))
        tc == FMul(Flt(r.buy_price), Flt(r.quantity))
    IN  [idx |-> r.idx, symbol |-> r.symbol, quantity |-> r.quantity,
         buy_price |-> r.buy_price, current_price |-> cp, market_value |-> mv,
         total_cost |-> tc, pnl |-> FSub(mv, tc),
         return_pct |-> FMul(FSub(FDiv(cp, Flt(r.buy_price)), Flt(1)), Flt(100))]

\* total = df["market_value"].sum()
market_total(rows) == SumSkipNa([i \in DOMAIN rows |-> rows[i].market_value])

\* df["weight_pct"] = df["market_value"] / total * 100
with_weight(r, total) ==
    [idx |-> r.idx, symbol |-> r.symbol, quantity |-> r.quantity,
     buy_price |-> r.buy_price, current_price |-> r.current_price,
     market_value |-> r.market_value, total_cost |-> r.total_cost,
     pnl |-> r.pnl, return_pct |-> r.return_pct,
     weight_pct |-> FMul(FDiv(r.market_value, total), Flt(100))]

metrics_rows(df, prices) ==
    LET rows == [i \in DOMAIN df.rows |-> row_metrics(df.rows[i], prices)]
        total == market_total(rows)
    IN  [i \in DOMAIN rows |-> with_weight(rows[i], total)]

\* compute_metrics(df) when the exchange has feed: the frame returned (out)
\* and the caller's frame after the call (store).  An empty frame is returned
\* as it is, without a download; otherwise the work is done on a copy.  The
\* IndexError of fetch_current_prices leaves compute_metrics uncaught: nothing
\* is returned then (out is not read).
compute_metrics(df, feed) ==
    IF IsEmpty(df) THEN [err |-> "none", store |-> df, out |-> df]
    ELSE LET fetched == fetch_current_prices(SymbolsOf(df), feed)
         IN  IF fetched.err # "none"
             THEN [err |-> fetched.err, store |-> df, out |-> NoRows]
             ELSE [err |-> "none", store |-> df,
                   out |-> Frame(TRUE, metrics_rows(df, fetched.prices))]

---------------------------------------------------------------------------
(* The DataFrame program: the history *)

\* The days of the window of the download, in order.
DaySeq == <<1, 2, 3>>

Days == {DaySeq[i] : i \in DOMAIN DaySeq}

\* What the exchange has for one symbol: a close or nothing on each day.
Closes == [Days -> QuoteValues]

\* yf.download(symbols, period="1y")["Adj Close"], as a frame also for one
\* symbol (to_frame): a row for every day on which some symbol has a close,
\* a column for each symbol, NaN where the symbol has no close on the day.
download(symbols, closes) ==
    LET Traded(d) == \E s \in symbols : NotNaN(closes[s][d])
        index == SelectSeq(DaySeq, Traded)
    IN  [index |-> index,
         columns |-> [s \in symbols |-> [i \in DOMAIN index |-> closes[s][index[i]]]]]

\* A column that is not filled.
no_fill(column) == column

\* fillna(method="ffill") on a column: NaN takes the last value before it;
\* NaN at the head of the column stays.
RECURSIVE ffill(_)
ffill(column) ==
    IF column = <<>> THEN <<>>
    ELSE LET front == ffill(SubSeq(column, 1, Len(column) - 1))
             value == column[Len(column)]
         IN  Append(front, IF IsNaN(value) /\ front # <<>>
                           THEN front[Len(front)] ELSE value)

\* quantities[col] of quantities = df.set_index("symbol")["quantity"]
quantity_of(df, col) ==
    LET i == CHOOSE j \in DOMAIN df.rows : df.rows[j].symbol = col
    IN  df.rows[i].quantity

\* fetch_history(df) with the closes the download has: the series of the
\* totals as points (day, total), data.sum(axis=1) leaving NaN out.
fetch_history(df, closes) ==
    IF IsEmpty(df) THEN <<>>
    ELSE LET symbols == SymbolsOf(df)
             data == download(symbols, closes)
             filled == [s \in symbols |-> ffill(data.columns[s])]
             scaled == [s \in symbols |->
                          [i \in DOMAIN data.index |->
                              FMul(filled[s][i], Flt(quantity_of(df, s)))]]
         IN  [i \in DOMAIN data.index |->
                 [day |-> data.index[i],
                  total |-> SumSkipNa([j \in DOMAIN df.rows |->
                                          scaled[df.rows[j].symbol][i]])]]

HistIdle == [done |-> FALSE, history |-> <<>>]

NoCloses == [s \in {} |-> [d \in Days |-> NaN]]

HistAtRest == h_df = NoRows /\ h_data = NoCloses /\ h_out = HistIdle

\* fetch_history(h_df) with the download answering h_data.
History ==
    /\ ~h_out.done
    /\ h_out' = [done |-> TRUE, history |-> fetch_history(h_df, h_data)]
    /\ UNCHANGED <<h_df, h_data>>

---------------------------------------------------------------------------
(* The PortfolioManager program *)

\* The tickers the user types into the PortfolioManager forms.
Tickers == {"AAPL", "MSFT"}

\* number_input(min_value=0.001) and number_input(min_value=0.01): both inputs
\* are above 0.  Two numbers of shares are entered, 1 and one above MaxQty.
ShareInputs == {1, MaxQty + 1}

\* Two purchase prices are entered, 1 and one above MaxPrice, so that an edit
\* can change the cost basis of an asset.
AvgPriceInputs == {1, MaxPrice + 1}

\* info.get('sector', 'N/A') of a ticker.
sector_of(ticker) ==
    CASE ticker = "AAPL" -> "Technology"
      [] ticker = "JPM" -> "Financial Services"
      [] OTHER -> "N/A"

\* The last closes the exchange answers with: the lowest and the highest.
LastCloses == {1, MaxQuote}

\* fetch_stock_data returned None without a notice: the history is empty.
NoData == [found |-> FALSE, raised |-> FALSE, current_price |-> 0, sector |-> "N/A"]

\* fetch_stock_data returned None from its except branch, after st.error.
FetchRaised == [found |-> FALSE, raised |-> TRUE, current_price |-> 0, sector |-> "N/A"]

StockData(price, sector) ==
    [found |-> TRUE, raised |-> FALSE, current_price |-> price, sector |-> sector]

\* fetch_stock_data(ticker): None when the history is empty, None after
\* st.error when the request raises, else the data of the ticker with its
\* last close.
fetch_stock_data(ticker) ==
    {NoData, FetchRaised} \cup
    {StockData(q, sector_of(ticker)) : q \in LastCloses}

\* What fetch_stock_data itself showed on the page.
FetchNotices(stock_data) == IF stock_data.raised THEN {"fetch_error"} ELSE {}

\* The asset dictionary show_add_asset builds.
new_asset(ticker, shares, avg_price, stock_data) ==
    [ticker |-> ticker,
     shares |-> shares,
     avg_price |-> avg_price,
     total_cost |-> shares * avg_price,
     current_price |-> stock_data.current_price,
     current_value |-> shares * stock_data.current_price,
     return_amount |-> (shares * stock_data.current_price) - (shares * avg_price),
     return_pct |-> FMul(FDiv(Flt(stock_data.current_price - avg_price),
                              Flt(avg_price)), Flt(100)),
     sector |-> stock_data.sector]

\* The update show_edit_portfolio applies to the asset: sector is not touched.
edited_asset(asset, new_shares, new_avg_price, stock_data) ==
    [asset EXCEPT
        !.shares = new_shares,
        !.avg_price = new_avg_price,
        !.total_cost = new_shares * new_avg_price,
        !.current_price = stock_data.current_price,
        !.current_value = new_shares * stock_data.current_price,
        !.return_amount = (new_shares * stock_data.current_price)
                            - (new_shares * new_avg_price),
        !.return_pct = FMul(FDiv(Flt(stock_data.current_price - new_avg_price),
                                 Flt(new_avg_price)), Flt(100))]

\* refreshed_asset storing the new price only.
refreshed_asset_price_only(asset, stock_data) ==
    IF stock_data.found
    THEN [asset EXCEPT !.current_price = stock_data.current_price]
    ELSE asset

\* refreshed_asset clearing the price fields of an asset without stock data.
refreshed_asset_cleared(asset, stock_data) ==
    IF stock_data.found
    THEN [asset EXCEPT
            !.current_price = stock_data.current_price,
            !.current_value = asset.shares * stock_data.current_price,
            !.return_amount = asset.shares * stock_data.current_price
                                - asset.total_cost]
    ELSE [asset EXCEPT
            !.current_price = 0,
            !.current_value = 0,
            !.return_amount = 0 - asset.total_cost]

\* One turn of the loop of update_portfolio_prices on its asset: with stock
\* data the price fields are recomputed from the stored shares and
\* total_cost, without it the asset is kept as it is.
refreshed_asset(asset, stock_data) ==
    IF stock_data.found
    THEN LET value == asset.shares * stock_data.current_price
             amount == value - asset.total_cost
         IN  [asset EXCEPT
                !.current_price = stock_data.current_price,
                !.current_value = value,
                !.return_amount = amount,
                !.return_pct = IF asset.total_cost > 0
                               THEN FMul(FDiv(Flt(amount), Flt(asset.total_cost)),
                                         Flt(100))
                               ELSE Flt(0),
                !.sector = stock_data.sector]
    ELSE asset

PMTickersOf(assets) == {assets[i].ticker : i \in DOMAIN assets}

\* portfolio_data.json: absent, holding a list, or holding text that is not
\* JSON (valid is FALSE).
PMFile(data) == [exists |-> TRUE, valid |-> TRUE, data |-> data]

PMNoFile == [exists |-> FALSE, valid |-> FALSE, data |-> <<>>]

PMBrokenFile == [exists |-> TRUE, valid |-> FALSE, data |-> <<>>]

\* PortfolioManager.load_portfolio: the list in the file, [] without a file;
\* when json.load raises, st.error is shown and [] is returned.
pm_load_portfolio(f) ==
    IF ~f.exists THEN [portfolio |-> <<>>, notices |-> {}]
    ELSE IF f.valid THEN [portfolio |-> f.data, notices |-> {}]
    ELSE [portfolio |-> <<>>, notices |-> {"load_error"}]

\* What a call of save_portfolio can come to: the list is written; open
\* raises; open has emptied the file and the write raises.
SaveOutcomes == {"written", "open_fails", "write_fails"}

\* PortfolioManager.save_portfolio: the list is written and st.success shown.
\* When open raises the file stays as it was; when json.dump raises, open(.., 'w')
\* has emptied the file and it is left with the start of the text, which is not
\* JSON.  In both cases the exception is caught, st.error is shown and the
\* method returns normally.
pm_save_portfolio(assets, f, outcome) ==
    CASE outcome = "written" -> [file |-> PMFile(assets), notices |-> {"saved"}]
      [] outcome = "open_fails" -> [file |-> f, notices |-> {"save_error"}]
      [] OTHER -> [file |-> PMBrokenFile, notices |-> {"save_error"}]

PMStep(op, ticker, mutated, saved, notices) ==
    [op |-> op, ticker |-> ticker, mutated |-> mutated, saved |-> saved,
     notices |-> notices]

PMIdle == PMStep("start", "", FALSE, "none", {})

\* A step that did not call fetch_stock_data.
NoFetch == [t \in {} |-> NoData]

\* What a run of a handler can leave on the page when its st calls show
\* first and then second: streamlit ends a run that the user interrupts at
\* the next st call, before that call shows anything, so the run shows
\* nothing, or first only, or both.  The assignments and the write before the
\* call have been made all the same.
Shown(first, second) == {{}, first, first \cup second}

SaveResult(s) == IF "saved" \in s.notices THEN "ok" ELSE "failed"

\* No run of update_portfolio_prices is under way.
NotRefreshing == pm_refresh_at = 0

\* show_add_asset, the form submitted.  tickers are the tickers the user
\* types, outcomes the outcomes a write can have.
PMAddAsset(tickers, outcomes) ==
    /\ NotRefreshing
    /\ UNCHANGED pm_refresh_at
    /\ \E ticker \in tickers \cup {""}, shares \in ShareInputs,
          avg_price \in AvgPriceInputs :
        IF ~(ticker # "" /\ shares > 0 /\ avg_price > 0)
        THEN /\ \E notices \in Shown({"error"}, {}) :
                    pm_last' = PMStep("add", ticker, FALSE, "none", notices)
             /\ pm_fetched' = NoFetch
             /\ UNCHANGED <<pm_portfolio, pm_file>>
        ELSE IF ticker \in PMTickersOf(pm_portfolio)
        THEN /\ \E notices \in Shown({"warning"}, {}) :
                    pm_last' = PMStep("add", ticker, FALSE, "none", notices)
             /\ pm_fetched' = NoFetch
             /\ UNCHANGED <<pm_portfolio, pm_file>>
        ELSE \E stock_data \in fetch_stock_data(ticker) :
            /\ pm_fetched' = (ticker :> stock_data)
            /\ IF stock_data.found
               THEN \E outcome \in outcomes :
                    LET assets == Append(pm_portfolio,
                                         new_asset(ticker, shares, avg_price, stock_data))
                        s == pm_save_portfolio(assets, pm_file, outcome)
                    IN  /\ pm_portfolio' = assets
                        /\ pm_file' = s.file
                        /\ \E notices \in Shown(s.notices, {"success"}) :
                              pm_last' = PMStep("add", ticker, TRUE, SaveResult(s),
                                                notices)
               ELSE /\ \E notices \in Shown(FetchNotices(stock_data), {"error"}) :
                         pm_last' = PMStep("add", ticker, FALSE, "none", notices)
                    /\ UNCHANGED <<pm_portfolio, pm_file>>

\* show_edit_portfolio, Actualizar: without stock data nothing is changed and
\* the handler shows nothing of its own.
PMUpdateAsset(outcomes) ==
    /\ NotRefreshing
    /\ UNCHANGED pm_refresh_at
    /\ \E i \in DOMAIN pm_portfolio, new_shares \in ShareInputs,
          new_avg_price \in AvgPriceInputs :
        \E stock_data \in fetch_stock_data(pm_portfolio[i].ticker) :
            /\ pm_fetched' = (pm_portfolio[i].ticker :> stock_data)
            /\ IF stock_data.found
               THEN \E outcome \in outcomes :
                    LET assets == [pm_portfolio EXCEPT
                                     ![i] = edited_asset(pm_portfolio[i], new_shares,
                                                         new_avg_price, stock_data)]
                        s == pm_save_portfolio(assets, pm_file, outcome)
                    IN  /\ pm_portfolio' = assets
                        /\ pm_file' = s.file
                        /\ \E notices \in Shown(s.notices, {"success"}) :
                              pm_last' = PMStep("edit", pm_portfolio[i].ticker, TRUE,
                                                SaveResult(s), notices)
               ELSE /\ \E notices \in Shown(FetchNotices(stock_data), {}) :
                         pm_last' = PMStep("edit", pm_portfolio[i].ticker, FALSE,
                                           "none", notices)
                    /\ UNCHANGED <<pm_portfolio, pm_file>>

\* show_edit_portfolio, Eliminar: portfolio.pop(asset_index).
PMDeleteAsset(outcomes) ==
    /\ NotRefreshing
    /\ UNCHANGED pm_refresh_at
    /\ \E i \in DOMAIN pm_portfolio, outcome \in outcomes :
        LET assets == [j \in 1..(Len(pm_portfolio) - 1) |->
                          IF j < i THEN pm_portfolio[j] ELSE pm_portfolio[j + 1]]
            s == pm_save_portfolio(assets, pm_file, outcome)
        IN  /\ pm_portfolio' = assets
            /\ pm_file' = s.file
            /\ \E notices \in Shown(s.notices, {"success"}) :
                  pm_last' = PMStep("delete", pm_portfolio[i].ticker, TRUE,
                                    SaveResult(s), notices)
            /\ pm_fetched' = NoFetch

\* The button Actualizar Precios is pressed: update_portfolio_prices starts
\* on the session's list.
PMRefreshStart ==
    /\ NotRefreshing
    /\ pm_refresh_at' = 1
    /\ pm_last' = PMStep("refreshing", "", FALSE, "none", {})
    /\ pm_fetched' = NoFetch
    /\ UNCHANGED <<pm_portfolio, pm_file>>

\* One turn of the loop of update_portfolio_prices: fetch_stock_data for the
\* asset and the assignments to its dictionary, which is the one the
\* session's list holds.
PMRefreshAsset ==
    /\ pm_refresh_at \in DOMAIN pm_portfolio
    /\ \E stock_data \in fetch_stock_data(pm_portfolio[pm_refresh_at].ticker) :
        /\ pm_portfolio' = [pm_portfolio EXCEPT
                              ![pm_refresh_at] = refreshed_asset(@, stock_data)]
        /\ pm_fetched' = (pm_portfolio[pm_refresh_at].ticker :> stock_data)
        /\ pm_last' = PMStep("refreshing", "", FALSE, "none",
                             pm_last.notices \cup FetchNotices(stock_data))
    /\ pm_refresh_at' = pm_refresh_at + 1
    /\ UNCHANGED pm_file

\* The loop is through: after time.sleep(1) the list is assigned to the
\* session, save_portfolio is called and last_update is set.  A run that is
\* ended at the st call of save_portfolio has written the file and has not
\* set last_update.  What fetch_stock_data showed in the loop stays shown.
PMRefreshSave(outcomes) ==
    /\ pm_refresh_at = Len(pm_portfolio) + 1
    /\ \E outcome \in outcomes :
        LET s == pm_save_portfolio(pm_portfolio, pm_file, outcome)
        IN  /\ pm_file' = s.file
            /\ \E notices \in Shown(s.notices \cup {"last_update"}, {}) :
                  pm_last' = PMStep("refresh", "", TRUE, SaveResult(s),
                                    pm_last.notices \cup notices)
    /\ pm_refresh_at' = 0
    /\ pm_fetched' = NoFetch
    /\ UNCHANGED pm_portfolio

\* The user acts on a widget while update_portfolio_prices runs: streamlit
\* ends the run of the script at its next st call, so the assets refreshed so
\* far stay refreshed in the session and nothing is saved.  What
\* fetch_stock_data showed before stays shown.
PMRefreshInterrupted ==
    /\ pm_refresh_at > 0
    /\ pm_refresh_at' = 0
    /\ pm_last' = PMStep("interrupted", "", FALSE, "none", pm_last.notices)
    /\ pm_fetched' = NoFetch
    /\ UNCHANGED <<pm_portfolio, pm_file>>

\* The lists in the files the user uploads.
Uploads ==
    {<<>>, <<new_asset("MSFT", 1, 1, StockData(1, "N/A"))>>}

\* The files the user uploads: JSON of a list, or text that is not JSON.
UploadedFiles == {PMFile(l) : l \in Uploads} \cup {PMBrokenFile}

\* Cargar Portfolio with one of the files: the uploaded list replaces the
\* session's and is saved; when json.load raises, st.error is shown and
\* nothing is changed.
PMUpload(files, outcomes) ==
    /\ NotRefreshing
    /\ UNCHANGED pm_refresh_at
    /\ pm_fetched' = NoFetch
    /\ \E uploaded_file \in files :
        IF uploaded_file.valid
        THEN \E outcome \in outcomes :
             LET portfolio_data == uploaded_file.data
                 s == pm_save_portfolio(portfolio_data, pm_file, outcome)
             IN  /\ pm_portfolio' = portfolio_data
                 /\ pm_file' = s.file
                 /\ \E notices \in Shown(s.notices, {"success"}) :
                       pm_last' = PMStep("upload", "", TRUE, SaveResult(s), notices)
        ELSE /\ \E notices \in Shown({"error"}, {}) :
                    pm_last' = PMStep("upload", "", FALSE, "none", notices)
             /\ UNCHANGED <<pm_portfolio, pm_file>>

\* A new session: init_session_state loads the file.
PMNewSession ==
    /\ NotRefreshing
    /\ UNCHANGED pm_refresh_at
    /\ LET l == pm_load_portfolio(pm_file)
       IN  /\ pm_portfolio' = l.portfolio
           /\ pm_last' = PMStep("session", "", FALSE, "none", l.notices)
    /\ pm_fetched' = NoFetch
    /\ UNCHANGED pm_file

---------------------------------------------------------------------------
(* The PortfolioManager program: metrics and analysis *)

RECURSIVE IntSum(_)
IntSum(s) == IF s = <<>> THEN 0 ELSE s[1] + IntSum(Tail(s))

\* The largest of a non-empty sequence of integers.
IntMax(s) == CHOOSE m \in {s[i] : i \in DOMAIN s} : \A i \in DOMAIN s : s[i] <= m

\* calculate_portfolio_metrics(portfolio): the zeros for an empty list, else
\* the totals; the percentage is divided only by a total_cost above 0.
calculate_portfolio_metrics(assets) ==
    IF assets = <<>>
    THEN [total_value |-> 0, total_cost |-> 0, total_return |-> 0,
          total_return_pct |-> Flt(0), num_assets |-> 0]
    ELSE LET total_value == IntSum([i \in DOMAIN assets |-> assets[i].current_value])
             total_cost == IntSum([i \in DOMAIN assets |-> assets[i].total_cost])
             total_return == total_value - total_cost
         IN  [total_value |-> total_value,
              total_cost |-> total_cost,
              total_return |-> total_return,
              total_return_pct |->
                  IF total_cost > 0
                  THEN FMul(FDiv(Flt(total_return), Flt(total_cost)), Flt(100))
                  ELSE Flt(0),
              num_assets |-> Len(assets)]

\* show_dashboard, the metrics it shows: none for an empty list (the welcome
\* notice is shown and calculate_portfolio_metrics is not called), else the
\* four st.metric of calculate_portfolio_metrics(portfolio).
show_dashboard(assets) ==
    IF assets = <<>> THEN [shown |-> "welcome", metrics |-> <<>>]
    ELSE [shown |-> "dashboard", metrics |-> <<calculate_portfolio_metrics(assets)>>]

\* Series.mean(): NaN entries are left out; the mean of no entries is NaN.
mean(s) ==
    LET kept == SelectSeq(s, NotNaN)
    IN  FDiv(SeqSum(kept), Flt(Len(kept)))

\* The square of Series.std(): the sample variance (ddof=1) of the entries
\* that are not NaN, NaN for fewer than two of them.
variance(s) ==
    LET kept == SelectSeq(s, NotNaN)
        m == mean(s)
        sq == [i \in DOMAIN kept |-> FMul(FSub(kept[i], m), FSub(kept[i], m))]
    IN  IF Len(kept) < 2 THEN NaN ELSE FDiv(SeqSum(sq), Flt(Len(kept) - 1))

\* The statistics show_analysis computes from the asset list.  volatility_sq
\* is the square of volatility = df['return_pct'].std().
analysis_stats(assets) ==
    LET values == [i \in DOMAIN assets |-> assets[i].current_value]
        returns == [i \in DOMAIN assets |-> assets[i].return_pct]
        total_value == IntSum(values)
    IN  [total_value |-> total_value,
         avg_return |-> mean(returns),
         volatility_sq |-> variance(returns),
         num_sectors |-> Cardinality({assets[i].sector : i \in DOMAIN assets}),
         concentration |-> FMul(FDiv(Flt(IntMax(values)), Flt(total_value)), Flt(100))]

\* The list show_analysis writes: one entry for each rule that fires, in the
\* order of the four ifs, and the balanced entry when the list is still empty.
\* volatility > 20 is volatility_sq > 400, volatility being a root or NaN.
recommendations(stats) ==
    LET flags ==
            (IF FLess(Flt(ConcentrationLimit), stats.concentration)
             THEN <<"concentration">> ELSE <<>>)
            \o (IF stats.num_sectors < MinSectors THEN <<"sectors">> ELSE <<>>)
            \o (IF FLess(stats.avg_return, Flt(0)) THEN <<"negative_return">> ELSE <<>>)
            \o (IF FLess(Flt(VolatilityLimit * VolatilityLimit), stats.volatility_sq)
                THEN <<"volatility">> ELSE <<>>)
    IN  IF flags = <<>> THEN <<"balanced">> ELSE flags

NoStats ==
    [total_value |-> 0, avg_return |-> NaN, volatility_sq |-> NaN, num_sectors |-> 0,
     concentration |-> NaN]

\* show_analysis without the return on an empty list.
show_analysis_unguarded(assets) ==
    LET stats == IF assets = <<>> THEN NoStats ELSE analysis_stats(assets)
    IN  [shown |-> "analysis", stats |-> stats,
         recommendations |-> recommendations(stats)]

\* show_analysis: the page.  An empty list gets the notice "No hay datos
\* suficientes para el análisis." and nothing else.
show_analysis(assets) ==
    IF assets = <<>>
    THEN [shown |-> "no_data", stats |-> NoStats, recommendations |-> <<>>]
    ELSE LET stats == analysis_stats(assets)
         IN  [shown |-> "analysis", stats |-> stats,
              recommendations |-> recommendations(stats)]

\* history.pct_change(): the change of each day after the first against the
\* day before, as a fraction; 0 after 0 gives NaN.  (The NaN of the first day
\* is left out here.)
pct_change(history) ==
    [i \in 1..(Len(history) - 1) |->
        FSub(FDiv(Flt(history[i + 1]), Flt(history[i])), Flt(1))]

\* history.pct_change().dropna(): the changes that are not NaN.
daily_returns(history) == SelectSeq(pct_change(history), NotNaN)

\* The square of volatility = daily_returns.std() * np.sqrt(252), NaN for no
\* daily returns (and for one, std being the sample deviation).
annual_volatility_sq(history) ==
    IF daily_returns(history) = <<>> THEN NaN
    ELSE FMul(variance(daily_returns(history)), Flt(252))

\* The asset lists the analysis is applied to: for the tickers of the
\* sequence, in its order, assets as show_add_asset builds them.
AnTickerSeq == <<"AAPL", "MSFT", "JPM", "XOM">>

\* The purchase price of the assets of these lists, and the last closes one
\* below it, at it and one above it: at a purchase price of 5 the returns are
\* -20, 0 and 20 per cent, and the values 4, 5 and 6 give a largest weight of
\* 30 per cent (6 of 20).
AnAvgPrice == 5 * MaxPrice

AnLastCloses == {AnAvgPrice - 1, AnAvgPrice, AnAvgPrice + 1}

AssetsOf(ticker) ==
    {new_asset(ticker, shares, AnAvgPrice, StockData(q, sector_of(ticker))) :
        shares \in 1..MaxQty, q \in AnLastCloses}

\* The histories of a list worth total today: one day, three days at the
\* same value, three days with the value doubled on the second, and three
\* days of which the first two have no close yet (a total of 0).
Histories(total) ==
    IF total = 0 THEN {<<>>}
    ELSE {<<total>>, <<total, total, total>>, <<total, 2 * total, total>>,
          <<0, 0, total>>}

RECURSIVE AssetLists(_)
AssetLists(seq) ==
    IF seq = <<>> THEN {<<>>}
    ELSE LET rest == AssetLists(Tail(seq))
         IN  rest \cup {<<a>> \o r : a \in AssetsOf(Head(seq)), r \in rest}

AnIdle == [done |-> FALSE, metrics |-> calculate_portfolio_metrics(<<>>),
           dashboard |-> show_dashboard(<<>>), analysis |-> show_analysis(<<>>)]

AnAtRest == an_portfolio = <<>> /\ an_history = <<>> /\ an_out = AnIdle

\* What the user types into the ticker field; .upper() is applied to it.
TypedSymbols == Symbols \cup {"aapl", ""}

upper(typed) == IF typed = "aapl" THEN "AAPL" ELSE typed

Step(op, symbol, qty, price, existed, err) ==
    [op |-> op, symbol |-> symbol, qty |-> qty, price |-> price,
     existed |-> existed, err |-> err]

ValIdle == [done |-> FALSE, err |-> "none", store |-> NoRows, out |-> NoRows]

ValAtRest == vdf = NoRows /\ vquotes = << >> /\ vout = ValIdle

\* For the list an_portfolio: what calculate_portfolio_metrics returns when it
\* is called with the list, and the pages show_dashboard and show_analysis
\* with the list in the session.
Analyse ==
    /\ ~an_out.done
    /\ an_out' = [done |-> TRUE,
                  metrics |-> calculate_portfolio_metrics(an_portfolio),
                  dashboard |-> show_dashboard(an_portfolio),
                  analysis |-> show_analysis(an_portfolio)]
    /\ UNCHANGED <<an_portfolio, an_history>>

PMAtRest ==
    /\ pm_portfolio = <<>>
    /\ pm_file = PMNoFile
    /\ pm_last = PMIdle
    /\ pm_fetched = NoFetch
    /\ pm_refresh_at = 0

Init ==
    /\ file = NoFile
    /\ portfolio = load_portfolio(NoFile)
    /\ last = Step("start", "", 0, 0, FALSE, "none")
    /\ ValAtRest
    /\ PMAtRest
    /\ AnAtRest
    /\ HistAtRest

\* The form add_form: both number inputs have min_value=0.0, so neither a
\* negative quantity nor a negative price can be submitted; add_asset is called
\* when the form is submitted with a non-empty ticker.
AddForm ==
    \E typed \in TypedSymbols, qty \in 0..MaxQty, price \in 0..MaxPrice :
        LET symbol == upper(typed)
            r == add_asset(portfolio, file, symbol, qty, price)
        IN  IF symbol = ""
            THEN /\ last' = Step("add_skipped", symbol, qty, price, FALSE, "none")
                 /\ UNCHANGED <<portfolio, file>>
            ELSE /\ portfolio' = r.portfolio
                 /\ file' = r.file
                 /\ last' = Step("add", symbol, qty, price,
                                 symbol \in SymbolsOf(portfolio), r.err)

\* The Remove button, shown when the frame is not empty: remove_asset is
\* called with the symbol chosen in the selectbox, which offers the symbols
\* held.
RemoveButton ==
    /\ ~IsEmpty(portfolio)
    /\ \E to_remove \in SymbolsOf(portfolio) :
        LET symbol == to_remove
            r == remove_asset(portfolio, file, symbol)
        IN  /\ portfolio' = r.portfolio
            /\ file' = r.file
            /\ last' = Step("remove", symbol, 0, 0,
                            symbol \in SymbolsOf(portfolio), r.err)

\* A run of the script to its end (every interaction, and the rerun after
\* add_asset and remove_asset): compute_metrics on the session's frame, which
\* ends the run when it raises; then portfolio_df.set_index("symbol"), which
\* raises KeyError on a frame that has no columns.
Render ==
    \E feed \in Feeds(SymbolsOf(portfolio)) :
        LET m == compute_metrics(portfolio, feed)
        IN  /\ portfolio' = m.store
            /\ last' = Step("render", "", 0, 0, FALSE,
                            IF m.err # "none" THEN m.err
                            ELSE IF m.out.columns THEN "none" ELSE "KeyError")
            /\ UNCHANGED file

\* A new session: "portfolio" is not in st.session_state, so it is loaded.
NewSession ==
    /\ portfolio' = load_portfolio(file)
    /\ last' = Step("session", "", 0, 0, FALSE, "none")
    /\ UNCHANGED file

\* The lists of records over the symbols of seq, in the order of seq.
RECURSIVE RecordLists(_)
RecordLists(seq) ==
    IF seq = <<>> THEN {<<>>}
    ELSE LET rest == RecordLists(Tail(seq))
         IN  rest \cup
             {<<[symbol |-> Head(seq), quantity |-> q, buy_price |-> p]>> \o r :
                 r \in rest, q \in 0..MaxQty, p \in 0..MaxPrice}

\* The frames compute_metrics is applied to: every list of records as
\* load_portfolio builds a frame from it, and the frame of a first session.
ValFrames == {NoRows} \cup {DataFrame(d) : d \in RecordLists(ValSymbolSeq)}

InitVal ==
    /\ file = NoFile
    /\ portfolio = NoRows
    /\ last = Step("start", "", 0, 0, FALSE, "none")
    /\ vdf \in ValFrames
    /\ vquotes \in Feeds(SymbolsOf(vdf))
    /\ vout = ValIdle
    /\ PMAtRest
    /\ AnAtRest
    /\ HistAtRest

\* compute_metrics(vdf) when the exchange has vquotes.
Valuate ==
    /\ ~vout.done
    /\ LET m == compute_metrics(vdf, vquotes)
       IN  vout' = [done |-> TRUE, err |-> m.err, store |-> m.store, out |-> m.out]
    /\ UNCHANGED <<portfolio, file, last, vdf, vquotes>>
    /\ UNCHANGED <<pmVars, anVars, histVars>>

NextVal == Valuate

SpecVal == InitVal /\ [][NextVal]_vars

\* remove_asset(symbol) called on the frame of the session.
RemoveCall ==
    /\ last.op = "start"
    /\ \E symbol \in Symbols :
        LET r == remove_asset(portfolio, file, symbol)
        IN  /\ portfolio' = r.portfolio
            /\ file' = r.file
            /\ last' = Step("remove", symbol, 0, 0,
                            symbol \in SymbolsOf(portfolio), r.err)

\* The frames a session starts with: the frame of a first session, and what
\* load_portfolio builds from the lists of records portfolio.json can hold,
\* the empty list included.
InitRem ==
    /\ \E d \in RecordLists(ValSymbolSeq) :
          \/ portfolio = NoRows /\ file = NoFile /\ d = <<>>
          \/ portfolio = DataFrame(d) /\ file = [exists |-> TRUE, records |-> d]
    /\ last = Step("start", "", 0, 0, FALSE, "none")
    /\ ValAtRest
    /\ PMAtRest
    /\ AnAtRest
    /\ HistAtRest

NextRem == RemoveCall /\ UNCHANGED <<valVars, pmVars, anVars, histVars>>

\* remove_asset applied to bounded frames and symbols.
SpecRem == InitRem /\ [][NextRem]_vars

Next ==
    \/ (AddForm /\ UNCHANGED <<valVars, pmVars, anVars, histVars>>)
    \/ (RemoveButton /\ UNCHANGED <<valVars, pmVars, anVars, histVars>>)
    \/ (Render /\ UNCHANGED <<valVars, pmVars, anVars, histVars>>)
    \/ (NewSession /\ UNCHANGED <<valVars, pmVars, anVars, histVars>>)

Spec == Init /\ [][Next]_vars

InitPM ==
    /\ file = NoFile
    /\ portfolio = NoRows
    /\ last = Step("start", "", 0, 0, FALSE, "none")
    /\ ValAtRest
    /\ PMAtRest
    /\ AnAtRest
    /\ HistAtRest

\* The PortfolioManager program on a disk that takes every write.
NextPM ==
    \/ (PMAddAsset(Tickers, {"written"}) /\ UNCHANGED <<dfVars, valVars, anVars, histVars>>)
    \/ (PMUpdateAsset({"written"}) /\ UNCHANGED <<dfVars, valVars, anVars, histVars>>)
    \/ (PMDeleteAsset({"written"}) /\ UNCHANGED <<dfVars, valVars, anVars, histVars>>)
    \/ (PMRefreshStart /\ UNCHANGED <<dfVars, valVars, anVars, histVars>>)
    \/ (PMRefreshAsset /\ UNCHANGED <<dfVars, valVars, anVars, histVars>>)
    \/ (PMRefreshSave({"written"}) /\ UNCHANGED <<dfVars, valVars, anVars, histVars>>)
    \/ (PMRefreshInterrupted /\ UNCHANGED <<dfVars, valVars, anVars, histVars>>)
    \/ (PMUpload(UploadedFiles, {"written"}) /\ UNCHANGED <<dfVars, valVars, anVars, histVars>>)
    \/ (PMNewSession /\ UNCHANGED <<dfVars, valVars, anVars, histVars>>)

SpecPM == InitPM /\ [][NextPM]_vars

\* The PortfolioManager program on a disk where a write may fail; the user
\* works with one ticker and uploads an empty list or a file that is not JSON.
NextPMIO ==
    \/ (PMAddAsset({"AAPL"}, SaveOutcomes) /\ UNCHANGED <<dfVars, valVars, anVars, histVars>>)
    \/ (PMUpdateAsset(SaveOutcomes) /\ UNCHANGED <<dfVars, valVars, anVars, histVars>>)
    \/ (PMDeleteAsset(SaveOutcomes) /\ UNCHANGED <<dfVars, valVars, anVars, histVars>>)
    \/ (PMRefreshStart /\ UNCHANGED <<dfVars, valVars, anVars, histVars>>)
    \/ (PMRefreshAsset /\ UNCHANGED <<dfVars, valVars, anVars, histVars>>)
    \/ (PMRefreshSave(SaveOutcomes) /\ UNCHANGED <<dfVars, valVars, anVars, histVars>>)
    \/ (PMRefreshInterrupted /\ UNCHANGED <<dfVars, valVars, anVars, histVars>>)
    \/ (PMUpload({PMFile(<<>>), PMBrokenFile}, SaveOutcomes) /\ UNCHANGED <<dfVars, valVars, anVars, histVars>>)
    \/ (PMNewSession /\ UNCHANGED <<dfVars, valVars, anVars, histVars>>)

SpecPMIO == InitPM /\ [][NextPMIO]_vars

InitAn ==
    /\ file = NoFile
    /\ portfolio = NoRows
    /\ last = Step("start", "", 0, 0, FALSE, "none")
    /\ ValAtRest
    /\ PMAtRest
    /\ an_portfolio \in AssetLists(AnTickerSeq)
    /\ an_history \in Histories(calculate_portfolio_metrics(an_portfolio).total_value)
    /\ an_out = AnIdle
    /\ HistAtRest

NextAn == Analyse /\ UNCHANGED <<dfVars, valVars, pmVars, histVars>>

\* calculate_portfolio_metrics and show_analysis applied to bounded lists.
SpecAn == InitAn /\ [][NextAn]_vars

\* The symbols of the frames fetch_history is applied to.
HistSymbolSeq == <<"AAPL", "MSFT">>

\* The frames fetch_history is applied to: the cost basis plays no part in
\* the history, so the records differ in symbols and quantities only.
HistFrames ==
    {NoRows} \cup
    {DataFrame(d) : d \in {l \in RecordLists(HistSymbolSeq) :
                              \A i \in DOMAIN l : l[i].buy_price = MaxPrice}}

InitHist ==
    /\ file = NoFile
    /\ portfolio = NoRows
    /\ last = Step("start", "", 0, 0, FALSE, "none")
    /\ ValAtRest
    /\ PMAtRest
    /\ AnAtRest
    /\ h_df \in HistFrames
    /\ h_data \in [SymbolsOf(h_df) -> Closes]
    /\ h_out = HistIdle

NextHist == History /\ UNCHANGED <<dfVars, valVars, pmVars, anVars>>

\* fetch_history applied to bounded frames and downloads.
SpecHist == InitHist /\ [][NextHist]_vars

---------------------------------------------------------------------------
(* Position store: claims C1 - C4 *)

NewPosition == [symbol |-> last.symbol, quantity |-> last.qty, buy_price |-> last.price]

\* C1: add_or_update of a symbol that is not in the store appends exactly one
\* position at the end and leaves every existing position and the order as
\* they were, also after an earlier remove of a position that was not the last
\* one.  (Frames with the symbol column: every frame add and remove build.)
C1_AddAppendsOne ==
    [][(last'.op = "add" /\ ~last'.existed /\ portfolio.columns)
        => Positions(portfolio') = Append(Positions(portfolio), NewPosition')]_vars

UniqueSymbols ==
    \A i, j \in DOMAIN portfolio.rows :
        portfolio.rows[i].symbol = portfolio.rows[j].symbol => i = j

\* C2: no two positions of the store have the same symbol, and add_or_update of
\* a symbol already in the store puts the new quantity and cost basis into
\* that position at its place and leaves the other positions and the number
\* of positions as they were.
C2_UniqueAndUpdateInPlace ==
    /\ []UniqueSymbols
    /\ [][(last'.op = "add" /\ last'.existed)
            => /\ last'.err = "none"
               /\ Len(portfolio'.rows) = Len(portfolio.rows)
               /\ \A i \in DOMAIN portfolio.rows :
                    IF portfolio.rows[i].symbol = last'.symbol
                    THEN Position(portfolio'.rows[i]) = NewPosition'
                    ELSE portfolio'.rows[i] = portfolio.rows[i]]_vars

\* C2 witness: a position that is not the last one was updated to new values.
C2_Witness ==
    /\ last.op = "add" /\ last.existed /\ last.err = "none"
    /\ Len(portfolio.rows) = 2
    /\ Position(portfolio.rows[1]) = NewPosition
    /\ last.qty = 1 /\ last.price = 1

\* C3: every position of the store has quantity >= 0 and cost basis > 0,
\* because add_or_update rejects quantity < 0, cost basis <= 0 and the empty
\* symbol before it changes anything.
C3_PositionsValid ==
    /\ \A i \in DOMAIN portfolio.rows :
        portfolio.rows[i].quantity >= 0 /\ portfolio.rows[i].buy_price > 0
    /\ \A i \in DOMAIN file.records :
        file.records[i].quantity >= 0 /\ file.records[i].buy_price > 0

\* C4: remove of a symbol that is not in the store raises no error and leaves
\* the positions and their order as they were.
C4_RemoveAbsentIsNoOp ==
    [][(last'.op = "remove" /\ ~last'.existed)
        => last'.err = "none" /\ portfolio'.rows = portfolio.rows]_vars

---------------------------------------------------------------------------
(* Valuation: claims C7, C8 *)

\* The quote the exchange has for the symbol of row r, NaN when it has none.
Quote(r) == IF r.symbol \in DOMAIN vquotes THEN vquotes[r.symbol] ELSE NaN

HasQuote(r) == ~IsNaN(Quote(r))

\* The sum of quantity * quote over the positions that have a quote.
RECURSIVE ValidTotal(_)
ValidTotal(rows) ==
    IF rows = <<>> THEN Flt(0)
    ELSE LET rest == ValidTotal(Tail(rows))
         IN  IF HasQuote(rows[1])
             THEN FAdd(FMul(Quote(rows[1]), Flt(rows[1].quantity)), rest)
             ELSE rest

Valued == vout.done /\ ~IsEmpty(vdf)

\* C7: with the quote of a symbol missing the valuation completes: every
\* position is in the output; the position without a quote has market_value,
\* pnl, return_pct and weight_pct undefined; it is left out of the total that
\* the weights divide by; every other position has its derived fields from its
\* own quote.
C7_MissingQuoteIsolated ==
    Valued =>
        /\ vout.err = "none"
        /\ vout.out.columns
        /\ Positions(vout.out) = Positions(vdf)
        /\ \A i \in DOMAIN vdf.rows :
            LET r == vdf.rows[i]
                o == vout.out.rows[i]
                mv == FMul(Quote(r), Flt(r.quantity))
            IN  IF HasQuote(r)
                THEN /\ o.market_value = mv
                     /\ o.pnl = FSub(mv, Flt(r.buy_price * r.quantity))
                     /\ o.return_pct =
                          FMul(FSub(FDiv(Quote(r), Flt(r.buy_price)), Flt(1)), Flt(100))
                     /\ o.weight_pct = FMul(FDiv(mv, ValidTotal(vdf.rows)), Flt(100))
                ELSE /\ IsNaN(o.market_value) /\ IsNaN(o.pnl)
                     /\ IsNaN(o.return_pct) /\ IsNaN(o.weight_pct)

OutWeights == [i \in DOMAIN vout.out.rows |-> vout.out.rows[i].weight_pct]

\* C8: for every portfolio and feed the valuation gives every position a
\* weight that divides by the sum of market_value over the positions with a
\* quote: when that sum is > 0 the weights of those positions sum to 100, and
\* when it is 0, or no position has a quote, every position is in the output
\* with an undefined weight.
C8_WeightsSumTo100 ==
    Valued =>
        LET total == ValidTotal(vdf.rows)
        IN  /\ IsNum(total)
            /\ DOMAIN OutWeights = DOMAIN vdf.rows
            /\ total.n > 0 =>
                /\ SumSkipNa(OutWeights) = Flt(100)
                /\ \A i \in DOMAIN OutWeights :
                    HasQuote(vdf.rows[i]) <=> IsNum(OutWeights[i])
            /\ total.n = 0 => \A i \in DOMAIN OutWeights : IsNaN(OutWeights[i])

---------------------------------------------------------------------------
(* Persistence: claim C10 *)

\* C10: save followed by load yields the position list that was saved, with
\* the same symbol / quantity / buy_price columns, for every list including the
\* empty one.  (A new session loads what the session before saved last.)
C10_SaveLoadRoundTrip ==
    [][(last'.op = "session" /\ file.exists /\ portfolio.columns)
        => /\ Positions(portfolio') = Positions(portfolio)
           /\ portfolio'.columns = portfolio.columns]_vars

---------------------------------------------------------------------------
(* Persistence of the PortfolioManager program: claims C5, C6 *)

\* The handler told the user that it succeeded: its own st.success, or the
\* time of the last update that the refresh sets.
ReportedSuccess == pm_last.notices \cap {"success", "last_update"} # {}

\* C5: whenever a mutating operation (add, update, remove, price refresh,
\* upload) has returned success, the persisted portfolio equals the one in
\* memory.
C5_SuccessMeansPersisted ==
    (pm_last.mutated /\ ReportedSuccess)
        => pm_file.exists /\ pm_file.valid /\ pm_file.data = pm_portfolio

\* C6: when the save of a mutating operation fails, the failure is surfaced
\* and the operation does not report success.
C6_SaveFailureNotSuccess ==
    pm_last.saved = "failed"
        => "save_error" \in pm_last.notices /\ ~ReportedSuccess

---------------------------------------------------------------------------
(* Metrics and analysis: claims C11, C13 *)

\* C11: for an empty portfolio calculate_portfolio_metrics returns
\* total_value = 0 and total_cost = 0 and a return percentage that is the
\* number 0 (nothing was divided by the zero cost), and the analysis page
\* reports "no data": no recommendation is written, the balanced one included.
C11_EmptyPortfolioNoData ==
    (an_out.done /\ an_portfolio = <<>>) =>
        /\ an_out.metrics.total_value = 0
        /\ an_out.metrics.total_cost = 0
        /\ an_out.metrics.total_return_pct = Flt(0)
        /\ an_out.analysis.shown = "no_data"
        /\ an_out.analysis.recommendations = <<>>

C11_Witness ==
    /\ an_out.done
    /\ an_portfolio = <<>>
    /\ an_out.metrics.num_assets = 0
    /\ an_out.dashboard.shown = "welcome"
    /\ an_out.analysis.shown = "no_data"

\* The rules that fire: concentration, sectors and mean return on the
\* statistics of the positions, the volatility on the history of the
\* portfolio's value (the deviation of its daily changes, annualised, in per
\* cent; undefined, and so not above 20, for fewer than two days).
Triggered(stats, history) ==
    {f \in {"concentration", "sectors", "negative_return", "volatility"} :
        \/ f = "concentration" /\ IsNum(stats.concentration)
              /\ stats.concentration.n > ConcentrationLimit * stats.concentration.d
        \/ f = "sectors" /\ stats.num_sectors < MinSectors
        \/ f = "negative_return" /\ IsNum(stats.avg_return) /\ stats.avg_return.n < 0
        \/ f = "volatility" /\ Len(history) >= 2
              /\ FLess(Rat(VolatilityLimit * VolatilityLimit, 100 * 100),
                       annual_volatility_sq(history))}

\* The place of a flag in the fixed order.
FlagRank(f) ==
    CASE f = "concentration" -> 1
      [] f = "sectors" -> 2
      [] f = "negative_return" -> 3
      [] f = "volatility" -> 4
      [] OTHER -> 5

\* C13: for a non-empty portfolio the recommendation list holds exactly the
\* flags of the rules that fire (concentration > 30, sectors < 3, mean return
\* < 0, return volatility of the history > 20, each on its own), in that
\* order and once each; the balanced entry is there if and only if no rule
\* fired, and is then the only entry.
C13_RecommendationRules ==
    (an_out.done /\ an_portfolio # <<>>) =>
        LET recs == an_out.analysis.recommendations
            fired == Triggered(an_out.analysis.stats, an_history)
        IN  /\ an_out.analysis.shown = "analysis"
            /\ {recs[i] : i \in DOMAIN recs} \ {"balanced"} = fired
            /\ \A i, j \in DOMAIN recs :
                    i < j => FlagRank(recs[i]) < FlagRank(recs[j])
            /\ (\E i \in DOMAIN recs : recs[i] = "balanced") <=> fired = {}
            /\ fired = {} => recs = <<"balanced">>

---------------------------------------------------------------------------
(* Stored derived fields and the price refresh: claims C9, C12, C15 *)

\* The derived fields of an asset follow from its shares, avg_price and
\* current_price.
Consistent(asset) ==
    /\ asset.total_cost = asset.shares * asset.avg_price
    /\ asset.current_value = asset.shares * asset.current_price
    /\ asset.return_amount = asset.current_value - asset.total_cost

\* C12: in every state the add, edit, delete and refresh handlers reach,
\* with fetches that succeed or fail, every asset's stored total_cost is
\* shares * avg_price, its current_value is shares * current_price and its
\* return_amount is current_value - total_cost: no stored value is left
\* over from older shares, an older avg_price or an older price.
C12_DerivedFieldsConsistent ==
    \A i \in DOMAIN pm_portfolio : Consistent(pm_portfolio[i])

\* In the middle of a refresh of two assets: the first, of two shares at a
\* purchase price that is not the second's, has its new price, which is not
\* the one in the file; the second still waits.
C12_Witness ==
    /\ pm_refresh_at = 2
    /\ Len(pm_portfolio) = 2
    /\ pm_fetched[pm_portfolio[1].ticker].found
    /\ pm_portfolio[1].shares = 2
    /\ pm_portfolio[1].avg_price > pm_portfolio[2].avg_price
    /\ pm_portfolio[1].total_cost = 2 * pm_portfolio[1].avg_price
    /\ pm_file.valid
    /\ Len(pm_file.data) = 2
    /\ pm_portfolio[1].current_price # pm_file.data[1].current_price

\* An asset refreshed again with the same stock data is as it was after the
\* first refresh.
RefreshedTwiceAsOnce(asset) ==
    \A stock_data \in fetch_stock_data(asset.ticker) :
        refreshed_asset(refreshed_asset(asset, stock_data), stock_data)
            = refreshed_asset(asset, stock_data)

\* C9: the valuation of the store (the price refresh) is free of side effects
\* and idempotent: no step of a refresh changes an asset held in the store or
\* in the file, and a refresh run twice on the same assets with the same quotes
\* gives the same assets.
C9_ValuationLeavesStore ==
    [][pm_refresh_at > 0 =>
        /\ pm_portfolio' = pm_portfolio
        /\ pm_file'.data = pm_file.data
        /\ \A i \in DOMAIN pm_portfolio' : RefreshedTwiceAsOnce(pm_portfolio'[i])]_vars

\* A turn of the loop of update_portfolio_prices is taken.
RefreshTurn == pm_refresh_at > 0 /\ pm_refresh_at' = pm_refresh_at + 1

\* C15: every step of a price refresh, from the button to the save or to the
\* end of the run, keeps the number and the order of the assets and every
\* asset's ticker, shares, avg_price and total_cost, whether the fetch of its
\* ticker succeeds or fails; an asset is changed only in its own turn of the
\* loop, and when its fetch fails it is left as it was in every field.
C15_RefreshFrame ==
    [][pm_refresh_at > 0 =>
        /\ Len(pm_portfolio') = Len(pm_portfolio)
        /\ \A i \in DOMAIN pm_portfolio :
              /\ pm_portfolio'[i].ticker = pm_portfolio[i].ticker
              /\ pm_portfolio'[i].shares = pm_portfolio[i].shares
              /\ pm_portfolio'[i].avg_price = pm_portfolio[i].avg_price
              /\ pm_portfolio'[i].total_cost = pm_portfolio[i].total_cost
              /\ ~(/\ RefreshTurn
                   /\ i = pm_refresh_at
                   /\ pm_fetched'[pm_portfolio[i].ticker].found)
                    => pm_portfolio'[i] = pm_portfolio[i]]_vars

\* The loop of a refresh of two assets is through: the fetch of the second
\* raised, the first got a new quote earlier in the loop and stands above its
\* cost, at a price that is not yet in the file.
C15_Witness ==
    /\ pm_refresh_at = 3
    /\ Len(pm_portfolio) = 2
    /\ pm_fetched[pm_portfolio[2].ticker].raised
    /\ "fetch_error" \in pm_last.notices
    /\ pm_portfolio[1].return_amount > 0
    /\ pm_file.valid
    /\ Len(pm_file.data) = 2
    /\ pm_portfolio[1].current_price # pm_file.data[1].current_price
    /\ pm_portfolio[2] = pm_file.data[2]

---------------------------------------------------------------------------
(* History: claim C14 *)

\* The days on which some held symbol has a close.
UnionDays ==
    {d \in Days : \E s \in SymbolsOf(h_df) : h_data[s][d].k = "num"}

\* What a position adds to the total of day d: its quantity times the close
\* of its symbol on the latest day up to d that has one, 0 when there is none.
Contribution(r, d) ==
    LET known == {e \in Days : e <= d /\ h_data[r.symbol][e].k = "num"}
        latest == CHOOSE e \in known : \A f \in known : f <= e
    IN  IF known = {} THEN Flt(0)
        ELSE Rat(r.quantity * h_data[r.symbol][latest].n, h_data[r.symbol][latest].d)

RECURSIVE HeldTotal(_, _)
HeldTotal(rows, d) ==
    IF rows = <<>> THEN Flt(0)
    ELSE FAdd(Contribution(rows[1], d), HeldTotal(Tail(rows), d))

\* C14: the history has exactly one point for every day in the union of the
\* held symbols' trading days; the total of a day is the sum over the
\* positions of quantity times the symbol's last close at or before the day,
\* a symbol without a close so far adding 0; an empty store gives the empty
\* series.
C14_HistoryForwardFilled ==
    h_out.done =>
        LET hist == h_out.history
        IN  /\ {hist[i].day : i \in DOMAIN hist} = UnionDays
            /\ Len(hist) = Cardinality(UnionDays)
            /\ \A i \in DOMAIN hist : hist[i].total = HeldTotal(h_df.rows, hist[i].day)
            /\ IsEmpty(h_df) => hist = <<>>

\* Two symbols held: AAPL has a close on day 1 and none on day 2, MSFT has
\* its first close on day 2, and the history has a point for both days.
C14_Witness ==
    /\ h_out.done
    /\ Len(h_df.rows) = 2
    /\ \A i \in DOMAIN h_df.rows : h_df.rows[i].quantity > 0
    /\ h_data["AAPL"][1].k = "num" /\ h_data["AAPL"][2].k = "nan"
    /\ h_data["MSFT"][1].k = "nan" /\ h_data["MSFT"][2].k = "num"
    /\ Len(h_out.history) >= 2

====
